---- MODULE Spec2Model ----
(***************************************************************************)
(* hawiahjs/core: the connection-sharing layer, the relationship loader   *)
(* and the counter updates of the Hawiah facade (src/src/Hawiah.ts) over   *)
(* its backends (src/unnamed/part_001 IDriver, src/unnamed/part_002        *)
(* MemoryDriver).                                                          *)
(*                                                                         *)
(* JavaScript runs one task at a time: a method runs without interruption  *)
(* up to its first await on a promise that is not yet settled, and its     *)
(* continuation runs as a later step.  Each action below is one such       *)
(* uninterrupted stretch of code.  getWith, getOneWith, update and push    *)
(* are one action each: their caller awaits every call to its end before   *)
(* the next one.                                                           *)
(***************************************************************************)
EXTENDS Integers, Sequences, FiniteSets, TLC

\* ------------------------------------------------------------------ bounds
MaxInst == 2          \* Hawiah instances constructed in one run
MaxRecs == 1          \* records held by one store
MaxId == 1            \* largest _id a driver hands out
MaxKeys == 2          \* entries of a configuration given to getPoolKey
MaxRows == 2
MaxCount == 2          \* records of a store whose relationships are resolved
MaxTags == 2           \* values held by one array field
MaxBatch == 2          \* records handed to one insertMany

\* ------------------------------------------------------- the environment
\* Two backend classes.  MemoryDriver is the one of the repository: no
\* table(), no isConnected(), a connect() that cannot fail.  TableDriver
\* stands for a backend of the optional capabilities Hawiah.ts probes for
\* (table(), isConnected()) and whose connect() may reject.
MemoryDriver == "MemoryDriver"
TableDriver == "TableDriver"
DriverClasses == {MemoryDriver, TableDriver}

HasTable(class) == class = TableDriver
HasIsConnected(class) == class = TableDriver
CanFail(class) == class = TableDriver

Errors == {"ECONNREFUSED", "ETIMEDOUT"}
Names == {"x"}
Subs == {"default", "users", "posts"}

\* A configuration is the sequence of its own enumerable entries, in the
\* order JavaScript iterates them; a value is a scalar (s is String(val)),
\* an object (s is JSON.stringify(val)) or null.
Scalar(s) == [kind |-> "scalar", s |-> s]
Null == [kind |-> "null", s |-> ""]
Entry(k, s) == [key |-> k, val |-> Scalar(s)]
NullEntry(k) == [key |-> k, val |-> Null]

HasKey(config, k) == \E n \in 1..Len(config) : config[n].key = k
Lookup(config, k) == (CHOOSE n \in 1..Len(config) : config[n].key = k)

\* config[k] is truthy: present, not null, not the empty string
Truthy(config, k) ==
    /\ HasKey(config, k)
    /\ config[Lookup(config, k)].val.kind # "null"
    /\ config[Lookup(config, k)].val.s # ""
ValueOf(config, k) == config[Lookup(config, k)].val.s

IGNORE_KEYS == {"collectionName", "tableName", "collection", "table", "connectionKey"}
TableKeys == {"collectionName", "tableName", "collection", "table"}

RECURSIVE AppendEntries(_, _, _, _)
AppendEntries(cKey, config, n, ignoreKeys) ==
    IF n > Len(config) THEN cKey
    ELSE LET e == config[n]
             next == IF e.key \in ignoreKeys \/ e.val.kind = "null"
                     THEN cKey
                     ELSE cKey \o "|" \o e.key \o ":" \o e.val.s
         IN  AppendEntries(next, config, n + 1, ignoreKeys)

\* a fingerprint that takes every backend for one that switches tables
supportsTableAlways(class) == TRUE

\* a fingerprint that takes no backend for one that switches tables
supportsTableNever(class) == FALSE

\* typeof driverClass.prototype?.table === 'function'
supportsTable(class) == HasTable(class)

\* a fingerprint that passes over connectionKey
getPoolKeyNoOverride(class, config) ==
    AppendEntries(class, config, 1,
                  IF supportsTable(class) THEN IGNORE_KEYS ELSE IGNORE_KEYS \ TableKeys)

getPoolKey(class, config) ==
    IF Truthy(config, "connectionKey") THEN ValueOf(config, "connectionKey")
    ELSE LET ignoreKeys == IF supportsTable(class) THEN IGNORE_KEYS
                           ELSE IGNORE_KEYS \ TableKeys
         IN  AppendEntries(class, config, 1, ignoreKeys)

\* config.collectionName || config.tableName || config.collection ||
\* config.table || 'default'
TableName(config) ==
    IF Truthy(config, "collectionName") THEN ValueOf(config, "collectionName")
    ELSE IF Truthy(config, "tableName") THEN ValueOf(config, "tableName")
    ELSE IF Truthy(config, "collection") THEN ValueOf(config, "collection")
    ELSE IF Truthy(config, "table") THEN ValueOf(config, "table")
    ELSE "default"

\* The (class, configuration) pairs the callers construct instances from.
Setups ==
    << [class |-> MemoryDriver, config |-> <<Entry("path", "m")>>],
      [class |-> MemoryDriver,
       config |-> <<Entry("path", "m"), Entry("collection", "users")>>],
      [class |-> TableDriver, config |-> <<Entry("uri", "t")>>],
      [class |-> TableDriver,
       config |-> <<Entry("uri", "t"), Entry("collectionName", "users")>>],
      [class |-> TableDriver,
       config |-> <<Entry("collectionName", "posts"), Entry("uri", "t")>>] >>

\* The configurations fingerprints are computed for: up to MaxKeys entries of
\* distinct keys, in any order; an entry names the connection (uri, possibly
\* null), a sub-resource (collection) or an override identity.
KeyEntries ==
    {Entry("uri", "t"), NullEntry("uri"), Entry("collection", "users"),
     Entry("collection", "posts"), Entry("connectionKey", "k")}
Configs ==
    UNION {{c \in [1..n -> KeyEntries] :
               \A a, b \in 1..n : a # b => c[a].key # c[b].key} : n \in 0..MaxKeys}

\* ------------------------------------------------------------------- state
VARIABLES
    allowed,             \* the pairs of Setups the callers use, by position
    options,             \* the options each instance was constructed with
    relations,           \* this.relations: name -> relationship declaration
    loaders,             \* this.loaders: name -> loader and its cache
    locals,              \* the local variables of the instance's suspended call
    nInst,               \* Hawiah instances constructed so far (1..nInst)
    connectionKey,       \* this.connectionKey; "" when undefined
    driver,              \* this.driver: a handle [root, table]
    isConnected,         \* this.isConnected
    pc,                  \* where the instance's pending connect/disconnect stands
    awaiting,            \* the promise a suspended connect() awaits
    driversPool,         \* Hawiah.driversPool: fingerprint -> handle
    connectionPromises,  \* Hawiah.connectionPromises: key -> promise
    promises,            \* the promises made by connect(), one per driver.connect()
    drivers,             \* the backend objects built so far
    store,               \* the records each backend holds, per sub-resource
    ret                  \* what the last step returned or threw to its caller

vars == <<allowed, options, relations, loaders, locals, nInst, connectionKey, driver, isConnected, pc, awaiting,
          driversPool, connectionPromises, promises, drivers, store, ret>>

Insts == 1..nInst
NoHandle == [root |-> 0, table |-> ""]
\* options.schema left out
NoSchema == <<>>
NoOptions == [driver |-> "", config |-> <<>>, schema |-> NoSchema]
NoLocals == [op |-> "", query |-> "", field |-> "", amount |-> 0, record |-> <<>>,
             dataArray |-> <<>>, results |-> <<>>]
RootHandle(d) == [root |-> d, table |-> ""]

\* a call's result: status "ok", or the error thrown; n, recs the value
\* returned; calls the backend methods the call invoked
Ret(i, op, status, err, n, recs, calls) ==
    [inst |-> i, op |-> op, status |-> status, err |-> err, n |-> n,
     recs |-> recs, calls |-> calls]
NoRet == Ret(0, "none", "none", "", 0, <<>>, <<>>)

\* -------------------------------------------------------------- backends
ClassOf(h) == drivers[h.root].class

\* rootDriver.table(tableName): a handle on the same backend object, scoped
\* to the named sub-resource
table(h, name) == [root |-> h.root, table |-> name]

\* the sub-resource a handle reads and writes
SubOf(h) ==
    IF ~HasTable(ClassOf(h)) THEN "default"
    ELSE IF h.table = "" THEN drivers[h.root].sub
    ELSE h.table

\* driver.isConnected(), for a backend that has the method
DriverIsConnected(h) == drivers[h.root].live

\* new options.driver(config); key remembers the fingerprint the object was
\* built for
NewDriver(class, config) ==
    [class |-> class,
     key |-> getPoolKey(class, config),
     sub |-> IF HasTable(class) THEN TableName(config) ELSE "default",
     live |-> FALSE,
     idCounter |-> 1]

EmptyStore == [s \in Subs |-> <<>>]

\* What driver.connect() does before it returns its promise.
\* MemoryDriver.connect: this.data = []; this.idCounter = 1
DriverConnectDrivers(h) ==
    IF ClassOf(h) = MemoryDriver
    THEN [drivers EXCEPT ![h.root].idCounter = 1]
    ELSE drivers
DriverConnectStore(h) ==
    IF ClassOf(h) = MemoryDriver
    THEN [store EXCEPT ![h.root] = EmptyStore]
    ELSE store

\* What driver.disconnect() does.  MemoryDriver.disconnect: this.data = []
DriverDisconnectDrivers(h) ==
    IF HasIsConnected(ClassOf(h))
    THEN [drivers EXCEPT ![h.root].live = FALSE]
    ELSE drivers
DriverDisconnectStore(h) ==
    IF ClassOf(h) = MemoryDriver
    THEN [store EXCEPT ![h.root] = EmptyStore]
    ELSE store

\* A backend with a liveness state refuses calls while it is not connected;
\* MemoryDriver serves its array whatever happened before.
Serves(h) == ClassOf(h) = MemoryDriver \/ drivers[h.root].live

DataOf(h) == store[h.root][SubOf(h)]

\* MemoryDriver.matches over records of one field: the empty query "*"
\* matches everything, a query {name: q} the records of that name
Matches(rec, q) == q = "*" \/ ("name" \in DOMAIN rec /\ rec.name = q)
Queries == {"*"} \cup Names

RECURSIVE Filter(_, _, _)
Filter(data, q, keep) ==
    IF data = <<>> THEN <<>>
    ELSE IF Matches(Head(data), q) = keep
         THEN <<Head(data)>> \o Filter(Tail(data), q, keep)
         ELSE Filter(Tail(data), q, keep)

\* driver.count(query)
DriverCount(h, q) == Len(Filter(DataOf(h), q, TRUE))

\* ----------------------------------------------------------------- Hawiah
\* a constructor that never finds the fingerprint registered
PoolHasNever(cKey) == FALSE

\* Hawiah.driversPool.has(cKey)
PoolHas(cKey) == cKey \in DOMAIN driversPool

\* a constructor that does not register the handle it builds
PoolSetNot(cKey, h) == driversPool

\* a constructor whose registration drops the other fingerprints
PoolSetOnly(cKey, h) == [k \in {cKey} |-> h]

\* Hawiah.driversPool.set(cKey, this.driver)
PoolSet(cKey, h) ==
    [k \in DOMAIN driversPool \cup {cKey} |-> IF k = cKey THEN h ELSE driversPool[k]]

\* a key of Hawiah.connectionPromises: a fingerprint or a handle
FpKey(fp) == [fp |-> fp, root |-> 0, table |-> ""]
HandleKey(h) == [fp |-> "", root |-> h.root, table |-> h.table]

\* a connect() that coordinates on the fingerprint alone
PoolKeyOfFingerprint(i) == FpKey(connectionKey[i])

\* const poolKey = this.connectionKey || this.driver
PoolKey(i) ==
    IF connectionKey[i] # "" THEN FpKey(connectionKey[i]) ELSE HandleKey(driver[i])

\* a connect() that never finds the pending marker
PromiseGetNever(poolKey) == 0

\* Hawiah.connectionPromises.get(poolKey); 0 stands for undefined
PromiseGet(poolKey) ==
    IF poolKey \in DOMAIN connectionPromises THEN connectionPromises[poolKey] ELSE 0

\* a connect() that does not store the marker it made
PromiseSetNot(poolKey, p) == connectionPromises

\* Hawiah.connectionPromises.set(poolKey, p)
PromiseSet(poolKey, p) ==
    [k \in DOMAIN connectionPromises \cup {poolKey} |->
        IF k = poolKey THEN p ELSE connectionPromises[k]]

\* this.driver.isConnected && this.driver.isConnected()
ReportsConnected(h) == HasIsConnected(ClassOf(h)) /\ DriverIsConnected(h)

\* a connect() that passes over its own connected flag
AlreadyConnectedNever(i) == FALSE

\* if (this.isConnected) return, at the head of connect()
AlreadyConnected(i) == isConnected[i]

\* a disconnect() that clears the flag of every instance
ClearFlagAll(i) == [j \in 1..MaxInst |-> FALSE]

\* this.isConnected = false, at the end of disconnect()
ClearFlag(i) == [isConnected EXCEPT ![i] = FALSE]

\* an ensureConnected that lets every call through
ensureConnectedNoCheck(i) == TRUE

\* ensureConnected does not throw
ensureConnected(i) == isConnected[i]

Fresh ==
    /\ nInst = 0
    /\ options = [i \in 1..MaxInst |-> NoOptions]
    /\ relations = [i \in 1..MaxInst |-> <<>>]
    /\ loaders = [i \in 1..MaxInst |-> <<>>]
    /\ locals = [i \in 1..MaxInst |-> NoLocals]
    /\ connectionKey = [i \in 1..MaxInst |-> ""]
    /\ driver = [i \in 1..MaxInst |-> NoHandle]
    /\ isConnected = [i \in 1..MaxInst |-> FALSE]
    /\ pc = [i \in 1..MaxInst |-> "idle"]
    /\ awaiting = [i \in 1..MaxInst |-> 0]
    /\ driversPool = <<>>
    /\ connectionPromises = <<>>
    /\ promises = <<>>
    /\ drivers = <<>>
    /\ store = <<>>
    /\ ret = NoRet

\* callers construct instances from any of the pairs
Init == allowed = DOMAIN Setups /\ Fresh

\* callers construct all their instances from one pair
InitShared == allowed \in {{n} : n \in DOMAIN Setups} /\ Fresh

\* new Hawiah({driver: Class, config})
ConstructWith(s) ==
    /\ nInst < MaxInst
    /\ LET i == nInst + 1
           cKey == getPoolKey(s.class, s.config)
       IN  /\ nInst' = i
           /\ options' = [options EXCEPT ![i] = [driver |-> s.class, config |-> s.config, schema |-> NoSchema]]
           /\ connectionKey' = [connectionKey EXCEPT ![i] = cKey]
           /\ IF PoolHas(cKey)
              THEN LET rootDriver == driversPool[cKey]
                       h == IF HasTable(ClassOf(rootDriver))
                            THEN table(rootDriver, TableName(s.config))
                            ELSE rootDriver
                   IN  /\ driver' = [driver EXCEPT ![i] = h]
                       /\ isConnected' = [isConnected EXCEPT ![i] = ReportsConnected(h)]
                       /\ UNCHANGED <<driversPool, drivers, store>>
              ELSE LET d == Len(drivers) + 1
                   IN  /\ drivers' = Append(drivers, NewDriver(s.class, s.config))
                       /\ store' = Append(store, EmptyStore)
                       /\ driver' = [driver EXCEPT ![i] = RootHandle(d)]
                       /\ driversPool' = PoolSet(cKey, RootHandle(d))
                       /\ UNCHANGED isConnected
    /\ ret' = NoRet
    /\ UNCHANGED <<allowed, relations, loaders, locals, pc, awaiting, connectionPromises, promises>>

\* the callers of a run construct from the pairs of Setups they use
Construct(n) == n \in allowed /\ ConstructWith(Setups[n])

\* new Hawiah({driver: handle}), the handle being the one instance j
\* returns from getDriver()
ConstructFromHandle(j) ==
    /\ nInst < MaxInst
    /\ j \in Insts
    /\ nInst' = nInst + 1
    /\ driver' = [driver EXCEPT ![nInst + 1] = driver[j]]
    /\ options' = [options EXCEPT ![nInst + 1] = [driver |-> "handle", config |-> <<>>, schema |-> NoSchema]]
    /\ ret' = NoRet
    /\ UNCHANGED <<allowed, relations, loaders, locals, connectionKey, isConnected, pc, awaiting, driversPool,
                   connectionPromises, promises, drivers, store>>

ConnectOk(i) == Ret(i, "connect", "ok", "", 0, <<>>, <<>>)

\* connect(), up to its await
ConnectCall(i) ==
    /\ i \in Insts
    /\ pc[i] = "idle"
    /\ LET poolKey == PoolKey(i)
           connectionPromise == PromiseGet(poolKey)
       IN  IF AlreadyConnected(i)
           THEN /\ ret' = ConnectOk(i)
                /\ UNCHANGED <<isConnected, pc, awaiting, connectionPromises,
                               promises, drivers, store>>
           ELSE IF connectionPromise = 0
           THEN IF ReportsConnected(driver[i])
                THEN /\ isConnected' = [isConnected EXCEPT ![i] = TRUE]
                     /\ ret' = ConnectOk(i)
                     /\ UNCHANGED <<pc, awaiting, connectionPromises, promises,
                                    drivers, store>>
                ELSE /\ promises' = Append(promises,
                            [key |-> poolKey, h |-> driver[i],
                             state |-> "pending", err |-> ""])
                     /\ drivers' = DriverConnectDrivers(driver[i])
                     /\ store' = DriverConnectStore(driver[i])
                     /\ connectionPromises' = PromiseSet(poolKey, Len(promises) + 1)
                     /\ pc' = [pc EXCEPT ![i] = "awaitConnect"]
                     /\ awaiting' = [awaiting EXCEPT ![i] = Len(promises) + 1]
                     /\ ret' = NoRet
                     /\ UNCHANGED isConnected
           ELSE /\ pc' = [pc EXCEPT ![i] = "awaitConnect"]
                /\ awaiting' = [awaiting EXCEPT ![i] = connectionPromise]
                /\ ret' = NoRet
                /\ UNCHANGED <<isConnected, connectionPromises, promises, drivers, store>>
    /\ UNCHANGED <<allowed, relations, loaders, locals, options, nInst, connectionKey, driver, driversPool>>

\* the backend's connect operation succeeds
DriverConnectResolves(p) ==
    /\ p \in 1..Len(promises)
    /\ promises[p].state = "pending"
    /\ promises' = [promises EXCEPT ![p].state = "fulfilled"]
    /\ drivers' = IF HasIsConnected(ClassOf(promises[p].h))
                  THEN [drivers EXCEPT ![promises[p].h.root].live = TRUE]
                  ELSE drivers
    /\ ret' = NoRet
    /\ UNCHANGED <<allowed, relations, loaders, locals, options, nInst, connectionKey, driver, isConnected, pc, awaiting,
                   driversPool, connectionPromises, store>>

\* the backend's connect operation fails with error e
DriverConnectRejects(p, e) ==
    /\ p \in 1..Len(promises)
    /\ promises[p].state = "pending"
    /\ CanFail(ClassOf(promises[p].h))
    /\ promises' = [promises EXCEPT ![p].state = "rejected", ![p].err = e]
    /\ ret' = NoRet
    /\ UNCHANGED <<allowed, relations, loaders, locals, options, nInst, connectionKey, driver, isConnected, pc, awaiting,
                   driversPool, connectionPromises, drivers, store>>

\* a continuation that marks the instance connected whatever the outcome
ResumeFlagAlways(i, p) == TRUE

\* a continuation that forgets to mark the instance connected
ResumeFlagNever(i, p) == isConnected[i]

\* what the continuation of `await connectionPromise` does with the
\* settled promise: this.isConnected = true, or the rejection propagates
ResumeFlag(i, p) ==
    IF promises[p].state = "fulfilled" THEN TRUE ELSE isConnected[i]
ResumeRet(i, p) ==
    IF promises[p].state = "fulfilled" THEN ConnectOk(i)
    ELSE Ret(i, "connect", "ConnectionError", promises[p].err, 0, <<>>, <<>>)

\* connect(), from its await on
ConnectResume(i) ==
    /\ i \in Insts
    /\ pc[i] = "awaitConnect"
    /\ promises[awaiting[i]].state # "pending"
    /\ isConnected' = [isConnected EXCEPT ![i] = ResumeFlag(i, awaiting[i])]
    /\ ret' = ResumeRet(i, awaiting[i])
    /\ pc' = [pc EXCEPT ![i] = "idle"]
    /\ awaiting' = [awaiting EXCEPT ![i] = 0]
    /\ UNCHANGED <<allowed, relations, loaders, locals, options, nInst, connectionKey, driver, driversPool, connectionPromises,
                   promises, drivers, store>>

\* disconnect(), up to its await
DisconnectCall(i) ==
    /\ i \in Insts
    /\ pc[i] = "idle"
    /\ IF ~isConnected[i]
       THEN /\ ret' = Ret(i, "disconnect", "ok", "", 0, <<>>, <<>>)
            /\ UNCHANGED <<drivers, store, pc>>
       ELSE /\ drivers' = DriverDisconnectDrivers(driver[i])
            /\ store' = DriverDisconnectStore(driver[i])
            /\ pc' = [pc EXCEPT ![i] = "awaitDisconnect"]
            /\ ret' = NoRet
    /\ UNCHANGED <<allowed, relations, loaders, locals, options, nInst, connectionKey, driver, isConnected, awaiting,
                   driversPool, connectionPromises, promises>>

\* disconnect(), from its await on
DisconnectResume(i) ==
    /\ i \in Insts
    /\ pc[i] = "awaitDisconnect"
    /\ isConnected' = ClearFlag(i)
    /\ pc' = [pc EXCEPT ![i] = "idle"]
    /\ ret' = Ret(i, "disconnect", "ok", "", 0, <<>>, <<"disconnect">>)
    /\ UNCHANGED <<allowed, relations, loaders, locals, options, nInst, connectionKey, driver, awaiting, driversPool,
                   connectionPromises, promises, drivers, store>>

\* --------------------------------------------------------------- schema
\* typeof value: the fields of the records hold a name (a string), numbers
\* (_id, count) or an array (tags)
TypeOf(field) ==
    IF field = "name" THEN "string"
    ELSE IF field = "tags" THEN "array"
    ELSE "number"

\* the strings the email pattern accepts, of those the callers use
Emails == {"a@b.c"}

\* Schema.checkType(value, type) for the value data holds under field
checkType(data, field, type) ==
    IF type \in {"string", "text", "char"} THEN TypeOf(field) = "string"
    ELSE IF type \in {"number", "float", "integer"} THEN TypeOf(field) = "number"
    ELSE IF type = "array" THEN TypeOf(field) = "array"
    ELSE IF type = "email" THEN TypeOf(field) = "string" /\ data[field] \in Emails
    ELSE FALSE

\* a rule of a schema definition
Rule(type, required, hasDefault, default) ==
    [type |-> type, required |-> required, hasDefault |-> hasDefault,
     default |-> default]

\* Schema.validate(data, isPartial): the data with the defaults filled in,
\* and whether the required and the type checks let it through
SchemaValidate(definition, data, isPartial) ==
    LET defaulted == {key \in DOMAIN definition :
                         /\ ~isPartial
                         /\ key \notin DOMAIN data
                         /\ definition[key].hasDefault}
        validatedData == [key \in DOMAIN data \cup defaulted |->
                             IF key \in DOMAIN data THEN data[key]
                             ELSE definition[key].default]
        missing(key) == /\ ~isPartial
                        /\ definition[key].required
                        /\ key \notin DOMAIN validatedData
        mistyped(key) == /\ key \in DOMAIN validatedData
                         /\ definition[key].type # "any"
                         /\ ~checkType(validatedData, key, definition[key].type)
    IN  [ok |-> \A key \in DOMAIN definition : ~missing(key) /\ ~mistyped(key),
         data |-> validatedData]

\* this.driver.dbType: MemoryDriver declares none, nor does the interface
dbType(h) == "undefined"

\* validateData(data, isPartial)
validateData(i, data, isPartial) ==
    IF DOMAIN options[i].schema # {} /\ dbType(driver[i]) # "sql"
    THEN SchemaValidate(options[i].schema, data, isPartial)
    ELSE [ok |-> TRUE, data |-> data]

\* insert(data): ensureConnected, validateData, then driver.set; the store
\* holds at most maxLen records and hands out ids up to maxId
InsertWith(i, data, maxLen, maxId) ==
    /\ i \in Insts
    /\ LET h == driver[i]
           validated == validateData(i, data, FALSE)
           \* { _id: this.idCounter++, ...data }
           rec == validated.data @@ [_id |-> drivers[h.root].idCounter]
       IN  IF ~ensureConnected(i)
           THEN /\ ret' = Ret(i, "insert", "NotConnected", "", 0, <<>>, <<>>)
                /\ UNCHANGED <<drivers, store>>
           ELSE IF ~validated.ok
           THEN /\ ret' = Ret(i, "insert", "ValidationError", "", 0, <<>>, <<>>)
                /\ UNCHANGED <<drivers, store>>
           ELSE IF ~Serves(h)
           THEN /\ ret' = Ret(i, "insert", "BackendError", "", 0, <<>>, <<"set">>)
                /\ UNCHANGED <<drivers, store>>
           ELSE /\ Len(DataOf(h)) < maxLen
                /\ drivers[h.root].idCounter <= maxId
                /\ drivers' = [drivers EXCEPT ![h.root].idCounter = @ + 1]
                /\ store' = [store EXCEPT ![h.root][SubOf(h)] = Append(@, rec)]
                /\ ret' = Ret(i, "insert", "ok", "", 0, <<rec>>, <<"set">>)
    /\ UNCHANGED <<allowed, relations, loaders, locals, options, nInst, connectionKey, driver, isConnected, pc, awaiting,
                   driversPool, connectionPromises, promises>>

Insert(i, name) == InsertWith(i, [name |-> name], MaxRecs, MaxId)

\* remove(query): ensureConnected, then driver.delete
Remove(i, q) ==
    /\ i \in Insts
    /\ LET h == driver[i]
       IN  IF ~ensureConnected(i)
           THEN /\ ret' = Ret(i, "remove", "NotConnected", "", 0, <<>>, <<>>)
                /\ UNCHANGED store
           ELSE IF ~Serves(h)
           THEN /\ ret' = Ret(i, "remove", "BackendError", "", 0, <<>>, <<"delete">>)
                /\ UNCHANGED store
           ELSE /\ ret' = Ret(i, "remove", "ok", "", DriverCount(h, q), <<>>, <<"delete">>)
                /\ store' = [store EXCEPT ![h.root][SubOf(h)] = Filter(@, q, FALSE)]
    /\ UNCHANGED <<allowed, relations, loaders, locals, options, nInst, connectionKey, driver, isConnected, pc, awaiting,
                   driversPool, connectionPromises, promises, drivers>>

\* get(query) and count(query) change nothing: what the call returns in the
\* current state.  ensureConnected, then driver.get / driver.count
get(i, q) ==
    IF ~ensureConnected(i) THEN Ret(i, "get", "NotConnected", "", 0, <<>>, <<>>)
    ELSE IF ~Serves(driver[i]) THEN Ret(i, "get", "BackendError", "", 0, <<>>, <<"get">>)
    ELSE Ret(i, "get", "ok", "", 0, Filter(DataOf(driver[i]), q, TRUE), <<"get">>)

count(i, q) ==
    IF ~ensureConnected(i) THEN Ret(i, "count", "NotConnected", "", 0, <<>>, <<>>)
    ELSE IF ~Serves(driver[i]) THEN Ret(i, "count", "BackendError", "", 0, <<>>, <<"count">>)
    ELSE Ret(i, "count", "ok", "", DriverCount(driver[i], q), <<>>, <<"count">>)

\* ---------------------------------------------------------- relationships
\* The value of a key field of a record, with its JavaScript type: _id is a
\* number, name a string, a field the record does not have is undefined.
KeyFields == {"_id", "name"}
Undefined == [t |-> "undefined", n |-> 0, s |-> ""]
FieldOf(rec, f) ==
    IF f \notin DOMAIN rec THEN Undefined
    ELSE IF f = "_id" THEN [t |-> "number", n |-> rec[f], s |-> ""]
    ELSE [t |-> "string", n |-> 0, s |-> rec[f]]

\* What a record carries under a relationship name: null, one target record,
\* an array of target records, or an Error object.
NullResult == [kind |-> "null", recs |-> <<>>, err |-> ""]
OneResult(r) == [kind |-> "record", recs |-> <<r>>, err |-> ""]
ManyResult(rs) == [kind |-> "array", recs |-> rs, err |-> ""]
ErrorResult(e) == [kind |-> "error", recs |-> <<>>, err |-> e]

\* type === 'many' ? [] : null
EmptyResult(type) == IF type = "many" THEN ManyResult(<<>>) ELSE NullResult

RelationConfig(target, localKey, foreignKey, type) ==
    [target |-> target, localKey |-> localKey, foreignKey |-> foreignKey,
     type |-> type]

\* new DataLoader(...): the batch function closes over the target, the
\* foreign key and the type of the declaration it was created under
NewLoader(relation) ==
    [target |-> relation.target, foreignKey |-> relation.foreignKey,
     type |-> relation.type, cache |-> <<>>]

\* the value the batch function returns for one key
BatchValue(loader, key, allRecords) ==
    LET hits == SelectSeq(allRecords, LAMBDA r : FieldOf(r, loader.foreignKey) = key)
    IN  IF loader.type = "one"
        THEN IF hits = <<>> THEN NullResult ELSE OneResult(hits[Len(hits)])
        ELSE ManyResult(hits)

\* records.map(r => r[localKey]).filter(k => k != null)
KeysOf(records, localKey) ==
    SelectSeq([n \in 1..Len(records) |-> FieldOf(records[n], localKey)],
              LAMBDA k : k.t # "undefined")

\* a resolution that writes nothing onto the records
AnnotateNot(rec, name, result) == rec

\* record[relationName] = result
Annotate(rec, name, result) ==
    [f \in DOMAIN rec \cup {name} |-> IF f = name THEN result ELSE rec[f]]

\* A call in progress: the records it annotates, the loaders of its
\* instance, the backend and target calls it has made, how it stands, and
\* what loadMany does with a failed batch in the dataloader release that is
\* installed: release 1 rejects, release 2 resolves to Error objects.
Call(records, ldrs, calls, rejects) ==
    [records |-> records, loaders |-> ldrs, calls |-> calls, status |-> "ok",
     err |-> "", rejects |-> rejects]

\* a loadRelation that builds a fresh loader every time
LoaderOfFresh(i, ldrs, name) == NewLoader(relations[i][name])

\* let loader = this.loaders.get(relationName); if (!loader) loader = new ...
LoaderOf(i, ldrs, name) ==
    IF name \in DOMAIN ldrs THEN ldrs[name] ELSE NewLoader(relations[i][name])

\* a loader that calls its batch function once for every key
BatchesPerKey(missing) == Cardinality(missing)

\* the loads of one loadMany call that miss the cache are dispatched
\* together: the batch function runs once if any key is missing
Batches(missing) == IF missing # {} THEN 1 ELSE 0

\* loader.loadMany(keys): the keys the cache does not hold go to the batch
\* function in one batch, which fetches target.get({}); a fetch that fails
\* leaves those keys uncached and an Error at their positions.
LoadMany(loader, keys) ==
    LET wanted == {keys[n] : n \in 1..Len(keys)}
        missing == wanted \ DOMAIN loader.cache
        fetch == get(loader.target, "*")
        cache == IF missing # {} /\ fetch.status = "ok"
                 THEN [k \in DOMAIN loader.cache \cup missing |->
                          IF k \in missing THEN BatchValue(loader, k, fetch.recs)
                          ELSE loader.cache[k]]
                 ELSE loader.cache
    IN  [loader |-> [loader EXCEPT !.cache = cache],
         fetches |-> [b \in 1..Batches(missing) |-> "target.get"],
         results |-> [n \in 1..Len(keys) |->
                         IF keys[n] \in DOMAIN cache THEN cache[keys[n]]
                         ELSE ErrorResult(fetch.status)],
         failed |-> missing # {} /\ fetch.status # "ok",
         error |-> fetch.status]

\* loadRelation(records, relationName)
LoadRelation(i, call, name) ==
    IF name \notin DOMAIN relations[i]
    THEN [call EXCEPT !.status = "UnknownRelation", !.err = name]
    ELSE LET relation == relations[i][name]
             loader == LoaderOf(i, call.loaders, name)
             keys == KeysOf(call.records, relation.localKey)
             loaded == LoadMany(loader, keys)
             put(ldr) == [n \in DOMAIN call.loaders \cup {name} |->
                             IF n = name THEN ldr ELSE call.loaders[n]]
             \* the position of record n among the records that have a key
             resultIndex(n) ==
                 Len(KeysOf(SubSeq(call.records, 1, n), relation.localKey))
         IN  IF keys = <<>> THEN [call EXCEPT !.loaders = put(loader)]
             ELSE IF loaded.failed /\ call.rejects
             THEN [call EXCEPT !.loaders = put(loaded.loader),
                               !.calls = @ \o loaded.fetches,
                               !.status = loaded.error]
             ELSE [call EXCEPT
                      !.loaders = put(loaded.loader),
                      !.calls = @ \o loaded.fetches,
                      !.records =
                          [n \in 1..Len(call.records) |->
                              IF FieldOf(call.records[n], relation.localKey).t # "undefined"
                              THEN Annotate(call.records[n], name,
                                            loaded.results[resultIndex(n)])
                              ELSE Annotate(call.records[n], name,
                                            EmptyResult(relation.type))]]

\* for (const relationName of relations) await this.loadRelation(...)
RECURSIVE LoadRelations(_, _, _)
LoadRelations(i, call, rels) ==
    IF rels = <<>> \/ call.status # "ok" THEN call
    ELSE LoadRelations(i, LoadRelation(i, call, Head(rels)), Tail(rels))

\* MemoryDriver.get and getOne hand out the objects the store holds, so what
\* a call writes onto its records is written onto the stored records
WriteBack(h, records) ==
    IF ClassOf(h) # MemoryDriver THEN store
    ELSE [store EXCEPT ![h.root][SubOf(h)] =
             [n \in 1..Len(@) |->
                 IF \E k \in 1..Len(records) : records[k]._id = @[n]._id
                 THEN records[CHOOSE k \in 1..Len(records) : records[k]._id = @[n]._id]
                 ELSE @[n]]]

\* the rest of getWith / getOneWith once the records are fetched
Populate(i, op, records, rels, first) ==
    \E rejects \in BOOLEAN :
    LET call == LoadRelations(i, Call(records, loaders[i], <<first>>, rejects), rels)
    IN  /\ loaders' = [loaders EXCEPT ![i] = call.loaders]
        /\ store' = WriteBack(driver[i], call.records)
        /\ ret' = IF call.status = "ok"
                  THEN Ret(i, op, "ok", "", 0, call.records, call.calls)
                  ELSE Ret(i, op, call.status, call.err, 0, <<>>, call.calls)

\* relation(name, target, localKey, foreignKey, type)
Relation(i, name, target, localKey, foreignKey, type) ==
    /\ i \in Insts /\ target \in Insts
    /\ relations' = [relations EXCEPT ![i] =
           [n \in DOMAIN @ \cup {name} |->
               IF n = name THEN RelationConfig(target, localKey, foreignKey, type)
               ELSE @[n]]]
    /\ ret' = Ret(i, "relation", "ok", "", 0, <<>>, <<>>)
    /\ UNCHANGED <<allowed, options, loaders, locals, nInst, connectionKey, driver,
                   isConnected, pc, awaiting, driversPool, connectionPromises,
                   promises, drivers, store>>

\* getWith(query, ...relations), the caller awaiting it to its end
GetWith(i, q, rels) ==
    /\ i \in Insts
    /\ IF ~ensureConnected(i)
       THEN /\ ret' = Ret(i, "getWith", "NotConnected", "", 0, <<>>, <<>>)
            /\ UNCHANGED <<loaders, store>>
       ELSE IF ~Serves(driver[i])
       THEN /\ ret' = Ret(i, "getWith", "BackendError", "", 0, <<>>, <<"get">>)
            /\ UNCHANGED <<loaders, store>>
       ELSE LET records == Filter(DataOf(driver[i]), q, TRUE)
            IN  IF rels = <<>> \/ records = <<>>
                THEN /\ ret' = Ret(i, "getWith", "ok", "", 0, records, <<"get">>)
                     /\ UNCHANGED <<loaders, store>>
                ELSE Populate(i, "getWith", records, rels, "get")
    /\ UNCHANGED <<allowed, options, relations, locals, nInst, connectionKey, driver,
                   isConnected, pc, awaiting, driversPool, connectionPromises,
                   promises, drivers>>

\* getOneWith(query, ...relations), the caller awaiting it to its end
GetOneWith(i, q, rels) ==
    /\ i \in Insts
    /\ IF ~ensureConnected(i)
       THEN /\ ret' = Ret(i, "getOneWith", "NotConnected", "", 0, <<>>, <<>>)
            /\ UNCHANGED <<loaders, store>>
       ELSE IF ~Serves(driver[i])
       THEN /\ ret' = Ret(i, "getOneWith", "BackendError", "", 0, <<>>, <<"getOne">>)
            /\ UNCHANGED <<loaders, store>>
       ELSE LET found == Filter(DataOf(driver[i]), q, TRUE)
                record == IF found = <<>> THEN <<>> ELSE <<Head(found)>>
            IN  IF record = <<>> \/ rels = <<>>
                THEN /\ ret' = Ret(i, "getOneWith", "ok", "", 0, record, <<"getOne">>)
                     /\ UNCHANGED <<loaders, store>>
                ELSE Populate(i, "getOneWith", record, rels, "getOne")
    /\ UNCHANGED <<allowed, options, relations, locals, nInst, connectionKey, driver,
                   isConnected, pc, awaiting, driversPool, connectionPromises,
                   promises, drivers>>

\* a clearCache that leaves the loaders where they are
ClearedNot(i) == loaders[i]

\* this.loaders.forEach(loader => loader.clearAll()); this.loaders.clear()
Cleared(i) == <<>>

\* clearCache()
ClearCache(i) ==
    /\ i \in Insts
    /\ loaders' = [loaders EXCEPT ![i] = Cleared(i)]
    /\ ret' = Ret(i, "clearCache", "ok", "", 0, <<>>, <<>>)
    /\ UNCHANGED <<allowed, options, relations, locals, nInst, connectionKey, driver,
                   isConnected, pc, awaiting, driversPool, connectionPromises,
                   promises, drivers, store>>

\* ------------------------------------------------------------- counters
\* driver.getOne(query): the first matching record, or none
DriverGetOne(h, q) ==
    LET found == Filter(DataOf(h), q, TRUE)
    IN  IF found = <<>> THEN <<>> ELSE <<Head(found)>>

\* MemoryDriver.update(query, data): every matching record is replaced by a
\* copy with the fields of data laid over it
DriverUpdate(h, q, data) ==
    [store EXCEPT ![h.root][SubOf(h)] =
        [n \in 1..Len(@) |-> IF Matches(@[n], q) THEN data @@ @[n] ELSE @[n]]]

\* an increment that takes every read for a hit
NotFoundNever(record) == FALSE

\* if (!record)
NotFound(record) == record = <<>>

\* Number(record[field]) || 0: a field the record lacks, or one that holds
\* a name, counts as 0
CurrentValue(record, field) ==
    IF record = <<>> \/ field \notin DOMAIN record[1] \/ field = "name" THEN 0
    ELSE record[1][field]

\* increment(query, field, amount) up to its await: ensureConnected, then
\* driver.getOne(query) reads the store.  op tells whether the caller went
\* through decrement().  Values stay within -MaxCount..MaxCount.
IncrementCall(i, op, q, field, amount) ==
    /\ i \in Insts
    /\ pc[i] = "idle"
    /\ IF ~ensureConnected(i)
       THEN /\ ret' = Ret(i, op, "NotConnected", "", 0, <<>>, <<>>)
            /\ UNCHANGED <<pc, locals>>
       ELSE IF ~Serves(driver[i])
       THEN /\ ret' = Ret(i, op, "BackendError", "", 0, <<>>, <<"getOne">>)
            /\ UNCHANGED <<pc, locals>>
       ELSE LET record == DriverGetOne(driver[i], q)
            IN  /\ CurrentValue(record, field) + amount \in -MaxCount..MaxCount
                /\ pc' = [pc EXCEPT ![i] = "awaitGetOne"]
                /\ locals' = [locals EXCEPT ![i] =
                       [NoLocals EXCEPT !.op = op, !.query = q, !.field = field,
                                        !.amount = amount, !.record = record]]
                /\ ret' = NoRet
    /\ UNCHANGED <<allowed, options, relations, loaders, nInst, connectionKey, driver,
                   isConnected, awaiting, driversPool, connectionPromises,
                   promises, drivers, store>>

\* increment(query, field, amount = 1)
Increment(i, q, field) == IncrementCall(i, "increment", q, field, 1)

\* decrement(query, field, amount = 1): increment(query, field, -amount)
Decrement(i, q, field) == IncrementCall(i, "decrement", q, field, -1)

\* increment from its await on: the not-found check, the new value, then
\* this.update(query, {[field]: newValue}), which is ensureConnected and
\* driver.update
IncrementResume(i) ==
    /\ i \in Insts
    /\ pc[i] = "awaitGetOne"
    /\ LET l == locals[i]
           newValue == CurrentValue(l.record, l.field) + l.amount
           validated == validateData(i, (l.field :> newValue), TRUE)
       IN  IF NotFound(l.record)
           THEN /\ ret' = Ret(i, l.op, "RecordNotFound", "", 0, <<>>, <<"getOne">>)
                /\ UNCHANGED store
           ELSE IF ~ensureConnected(i)
           THEN /\ ret' = Ret(i, l.op, "NotConnected", "", 0, <<>>, <<"getOne">>)
                /\ UNCHANGED store
           ELSE IF ~validated.ok
           THEN /\ ret' = Ret(i, l.op, "ValidationError", "", 0, <<>>, <<"getOne">>)
                /\ UNCHANGED store
           ELSE IF ~Serves(driver[i])
           THEN /\ ret' = Ret(i, l.op, "BackendError", "", 0, <<>>, <<"getOne", "update">>)
                /\ UNCHANGED store
           ELSE /\ store' = DriverUpdate(driver[i], l.query, validated.data)
                /\ ret' = Ret(i, l.op, "ok", "", newValue, <<>>, <<"getOne", "update">>)
    /\ pc' = [pc EXCEPT ![i] = "idle"]
    /\ locals' = [locals EXCEPT ![i] = NoLocals]
    /\ UNCHANGED <<allowed, options, relations, loaders, nInst, connectionKey, driver,
                   isConnected, awaiting, driversPool, connectionPromises,
                   promises, drivers>>

\* --------------------------------------------------------------- updates
\* MemoryDriver.update({_id: id}, data)
DriverUpdateById(h, id, data) ==
    [store EXCEPT ![h.root][SubOf(h)] =
        [n \in 1..Len(@) |-> IF @[n]._id = id THEN data @@ @[n] ELSE @[n]]]

\* the records with the given _id
WithId(h, id) == SelectSeq(DataOf(h), LAMBDA rec : rec._id = id)

\* update(query, data): ensureConnected, validateData(data, true), then
\* driver.update; returns the number of records updated
Update(i, q, data) ==
    /\ i \in Insts
    /\ LET h == driver[i]
           validated == validateData(i, data, TRUE)
       IN  IF ~ensureConnected(i)
           THEN /\ ret' = Ret(i, "update", "NotConnected", "", 0, <<>>, <<>>)
                /\ UNCHANGED store
           ELSE IF ~validated.ok
           THEN /\ ret' = Ret(i, "update", "ValidationError", "", 0, <<>>, <<>>)
                /\ UNCHANGED store
           ELSE IF ~Serves(h)
           THEN /\ ret' = Ret(i, "update", "BackendError", "", 0, <<>>, <<"update">>)
                /\ UNCHANGED store
           ELSE /\ ret' = Ret(i, "update", "ok", "", DriverCount(h, q), <<>>, <<"update">>)
                /\ store' = DriverUpdate(h, q, validated.data)
    /\ UNCHANGED <<allowed, options, relations, loaders, locals, nInst, connectionKey,
                   driver, isConnected, pc, awaiting, driversPool,
                   connectionPromises, promises, drivers>>

\* updateById(id, data): ensureConnected, then driver.update({_id: id}, data);
\* n is 1 for true, 0 for false
UpdateById(i, id, data) ==
    /\ i \in Insts
    /\ LET h == driver[i]
       IN  IF ~ensureConnected(i)
           THEN /\ ret' = Ret(i, "updateById", "NotConnected", "", 0, <<>>, <<>>)
                /\ UNCHANGED store
           ELSE IF ~Serves(h)
           THEN /\ ret' = Ret(i, "updateById", "BackendError", "", 0, <<>>, <<"update">>)
                /\ UNCHANGED store
           ELSE /\ ret' = Ret(i, "updateById", "ok", "",
                              IF Len(WithId(h, id)) > 0 THEN 1 ELSE 0, <<>>, <<"update">>)
                /\ store' = DriverUpdateById(h, id, data)
    /\ UNCHANGED <<allowed, options, relations, loaders, locals, nInst, connectionKey,
                   driver, isConnected, pc, awaiting, driversPool,
                   connectionPromises, promises, drivers>>

\* ---------------------------------------------------------- insertMany
\* One turn of the loop of insertMany for the record at the head of
\* dataArray: validateData, then driver.set, whose promise the loop awaits
\* before it takes the next record.  results are the records stored so
\* far; the store holds at most maxLen records and hands out ids up to maxId.
InsertManyTurn(i, dataArray, results, maxLen, maxId) ==
    LET h == driver[i]
        validated == validateData(i, Head(dataArray), FALSE)
        rec == validated.data @@ [_id |-> drivers[h.root].idCounter]
    IN  IF ~validated.ok
        THEN /\ ret' = Ret(i, "insertMany", "ValidationError", "", Len(results),
                           <<>>, [n \in 1..Len(results) |-> "set"])
             /\ pc' = [pc EXCEPT ![i] = "idle"]
             /\ locals' = [locals EXCEPT ![i] = NoLocals]
             /\ UNCHANGED <<drivers, store>>
        ELSE IF ~Serves(h)
        THEN /\ ret' = Ret(i, "insertMany", "BackendError", "", Len(results),
                           <<>>, [n \in 1..Len(results) + 1 |-> "set"])
             /\ pc' = [pc EXCEPT ![i] = "idle"]
             /\ locals' = [locals EXCEPT ![i] = NoLocals]
             /\ UNCHANGED <<drivers, store>>
        ELSE /\ Len(DataOf(h)) < maxLen
             /\ drivers[h.root].idCounter <= maxId
             /\ drivers' = [drivers EXCEPT ![h.root].idCounter = @ + 1]
             /\ store' = [store EXCEPT ![h.root][SubOf(h)] = Append(@, rec)]
             /\ pc' = [pc EXCEPT ![i] = "awaitSet"]
             /\ locals' = [locals EXCEPT ![i] =
                    [NoLocals EXCEPT !.op = "insertMany",
                                     !.dataArray = Tail(dataArray),
                                     !.results = Append(results, rec)]]
             /\ ret' = NoRet

\* insertMany(dataArray) up to its first await
InsertManyCall(i, dataArray, maxLen, maxId) ==
    /\ i \in Insts
    /\ pc[i] = "idle"
    /\ IF ~ensureConnected(i)
       THEN /\ ret' = Ret(i, "insertMany", "NotConnected", "", 0, <<>>, <<>>)
            /\ UNCHANGED <<pc, locals, drivers, store>>
       ELSE IF dataArray = <<>>
       THEN /\ ret' = Ret(i, "insertMany", "ok", "", 0, <<>>, <<>>)
            /\ UNCHANGED <<pc, locals, drivers, store>>
       ELSE InsertManyTurn(i, dataArray, <<>>, maxLen, maxId)
    /\ UNCHANGED <<allowed, options, relations, loaders, nInst, connectionKey, driver,
                   isConnected, awaiting, driversPool, connectionPromises, promises>>

\* insertMany after the promise of driver.set has resolved: the next turn
\* of the loop, or the return of the results
InsertManyResume(i, maxLen, maxId) ==
    /\ i \in Insts
    /\ pc[i] = "awaitSet"
    /\ IF locals[i].dataArray = <<>>
       THEN /\ ret' = Ret(i, "insertMany", "ok", "", Len(locals[i].results),
                          locals[i].results,
                          [n \in 1..Len(locals[i].results) |-> "set"])
            /\ pc' = [pc EXCEPT ![i] = "idle"]
            /\ locals' = [locals EXCEPT ![i] = NoLocals]
            /\ UNCHANGED <<drivers, store>>
       ELSE InsertManyTurn(i, locals[i].dataArray, locals[i].results, maxLen, maxId)
    /\ UNCHANGED <<allowed, options, relations, loaders, nInst, connectionKey, driver,
                   isConnected, awaiting, driversPool, connectionPromises, promises>>

\* ---------------------------------------------------------- array fields
\* Array.isArray(record[field])
IsArray(record, field) == field \in DOMAIN record /\ TypeOf(field) = "array"

\* if (!Array.isArray(record[field])) record[field] = [];
\* record[field].push(value)
Pushed(record, field, value) ==
    (field :> Append(IF IsArray(record, field) THEN record[field] ELSE <<>>, value))
        @@ record

\* the record of data that is the object `record`, replaced by `with`
Mutate(data, record, with) ==
    [n \in 1..Len(data) |-> IF data[n]._id = record._id THEN with ELSE data[n]]

\* The loop of push over the records it fetched.  data is what the backend
\* holds; attached tells whether the fetched records are still the objects
\* the backend holds, which they are for MemoryDriver until its update
\* replaces the matching records by copies.  Each turn changes the record
\* in place, validates it whole and hands it whole to driver.update(query).
RECURSIVE PushEach(_, _, _, _, _, _, _)
PushEach(i, data, attached, records, q, field, value) ==
    IF records = <<>> THEN [data |-> data, status |-> "ok"]
    ELSE LET record == Pushed(Head(records), field, value)
             held == IF attached THEN Mutate(data, Head(records), record) ELSE data
             validated == validateData(i, record, FALSE)
         IN  IF ~validated.ok THEN [data |-> held, status |-> "ValidationError"]
             ELSE PushEach(i,
                           [n \in 1..Len(held) |->
                               IF Matches(held[n], q) THEN validated.data @@ held[n]
                               ELSE held[n]],
                           FALSE, Tail(records), q, field, value)

\* push(query, field, value), the caller awaiting it to its end; arrays
\* hold at most MaxTags values
Push(i, q, field, value) ==
    /\ i \in Insts
    /\ LET h == driver[i]
           records == Filter(DataOf(h), q, TRUE)
           done == PushEach(i, DataOf(h), ClassOf(h) = MemoryDriver, records,
                            q, field, value)
       IN  IF ~ensureConnected(i)
           THEN /\ ret' = Ret(i, "push", "NotConnected", "", 0, <<>>, <<>>)
                /\ UNCHANGED store
           ELSE IF ~Serves(h)
           THEN /\ ret' = Ret(i, "push", "BackendError", "", 0, <<>>, <<"get">>)
                /\ UNCHANGED store
           ELSE /\ \A n \in 1..Len(records) :
                      IsArray(records[n], field) => Len(records[n][field]) < MaxTags
                /\ store' = [store EXCEPT ![h.root][SubOf(h)] = done.data]
                /\ ret' = IF done.status = "ok"
                          THEN Ret(i, "push", "ok", "", Len(records), <<>>,
                                   <<"get">> \o [n \in 1..Len(records) |-> "update"])
                          ELSE Ret(i, "push", done.status, "", 0, <<>>, <<"get">>)
    /\ UNCHANGED <<allowed, options, relations, loaders, locals, nInst, connectionKey,
                   driver, isConnected, pc, awaiting, driversPool,
                   connectionPromises, promises, drivers>>

Coordination ==
    \/ \E n \in DOMAIN Setups : Construct(n)
    \/ \E j \in 1..MaxInst : ConstructFromHandle(j)
    \/ \E i \in 1..MaxInst : ConnectCall(i)
    \/ \E p \in 1..MaxInst : DriverConnectResolves(p)
    \/ \E p \in 1..MaxInst, e \in Errors : DriverConnectRejects(p, e)
    \/ \E i \in 1..MaxInst : ConnectResume(i)
    \/ \E i \in 1..MaxInst : DisconnectCall(i)
    \/ \E i \in 1..MaxInst : DisconnectResume(i)

Next == Coordination

Spec == Init /\ [][Next]_vars

NextShared ==
    \/ Coordination
    \/ \E i \in 1..MaxInst, name \in Names : Insert(i, name)
    \/ \E i \in 1..MaxInst, q \in Names : Remove(i, q)

SpecShared == InitShared /\ [][NextShared]_vars

\* callers construct instances from any class and any configuration
InitKey == allowed = {} /\ Fresh

ConstructAny ==
    \E class \in DriverClasses, config \in Configs :
        ConstructWith([class |-> class, config |-> config])

NextKey == ConstructAny

SpecKey == InitKey /\ [][NextKey]_vars

\* The relationship calls are made on a source instance whose relationships
\* point at a target instance: instance 1 built from the first pair of
\* Setups and connected, instance 2 built from the second pair, connected
\* or not, each with its own MemoryDriver.  The source holds records with
\* or without a name, the target up to MaxRows records of one name.
RelValues == {"x", "y"}
SourceData ==
    { <<>>,
      << <<>>, <<>> >>,
      << [name |-> "x"], [name |-> "x"] >>,
      << [name |-> "x"], <<>>, [name |-> "y"] >> }
RelationNames == {"author", "tags"}
RelationLists == {<<>>, <<"author">>, <<"tags">>, <<"author", "tags">>}
Source == 1
Target == 2

Rows(data) == [k \in 1..Len(data) |-> [_id |-> k] @@ data[k]]

ConnectedPromise(i) ==
    [key |-> FpKey(getPoolKey(Setups[i].class, Setups[i].config)),
     h |-> RootHandle(i), state |-> "fulfilled", err |-> ""]

InitRel ==
    \E srcData \in SourceData, tgtConnected \in BOOLEAN :
    LET tgtData == <<>> IN
        /\ allowed = {Source, Target}
        /\ options = [i \in 1..MaxInst |->
                         IF i \in {Source, Target}
                         THEN [driver |-> Setups[i].class, config |-> Setups[i].config,
                               schema |-> NoSchema]
                         ELSE NoOptions]
        /\ relations = [i \in 1..MaxInst |-> <<>>]
        /\ loaders = [i \in 1..MaxInst |-> <<>>]
        /\ locals = [i \in 1..MaxInst |-> NoLocals]
        /\ nInst = 2
        /\ connectionKey = [i \in 1..MaxInst |->
                               IF i \in {Source, Target}
                               THEN getPoolKey(Setups[i].class, Setups[i].config)
                               ELSE ""]
        /\ driver = [i \in 1..MaxInst |->
                        IF i \in {Source, Target} THEN RootHandle(i) ELSE NoHandle]
        /\ isConnected = [i \in 1..MaxInst |-> i = Source \/ (i = Target /\ tgtConnected)]
        /\ pc = [i \in 1..MaxInst |-> "idle"]
        /\ awaiting = [i \in 1..MaxInst |-> 0]
        /\ driversPool = [k \in {getPoolKey(Setups[i].class, Setups[i].config) :
                                    i \in {Source, Target}} |->
                             RootHandle(CHOOSE i \in {Source, Target} :
                                 getPoolKey(Setups[i].class, Setups[i].config) = k)]
        /\ promises = IF tgtConnected
                      THEN <<ConnectedPromise(Source), ConnectedPromise(Target)>>
                      ELSE <<ConnectedPromise(Source)>>
        /\ connectionPromises =
               [k \in {promises[p].key : p \in 1..Len(promises)} |->
                   CHOOSE p \in 1..Len(promises) : promises[p].key = k]
        /\ drivers = <<[NewDriver(Setups[Source].class, Setups[Source].config)
                           EXCEPT !.idCounter = Len(srcData) + 1],
                       [NewDriver(Setups[Target].class, Setups[Target].config)
                           EXCEPT !.idCounter = Len(tgtData) + 1]>>
        /\ store = <<[EmptyStore EXCEPT !["default"] = Rows(srcData)],
                     [EmptyStore EXCEPT !["default"] = Rows(tgtData)]>>
        /\ ret = NoRet

InsertRow(i, data) == InsertWith(i, data, MaxRows, MaxRows)

NextRel ==
    \/ \E type \in {"one", "many"} :
           Relation(Source, "author", Target, "name", "name", type)
    \/ \E q \in Queries, rels \in RelationLists : GetWith(Source, q, rels)
    \/ \E q \in Queries, rels \in RelationLists : GetOneWith(Source, q, rels)
    \/ ClearCache(Source)
    \/ \E name \in Names : InsertRow(Target, [name |-> name])

SpecRel == InitRel /\ [][NextRel]_vars

\* The same two instances, with callers that resolve "author" again and
\* again while others insert, rename and remove records of the target.
NextCache ==
    \/ \E type \in {"one", "many"} :
           Relation(Source, "author", Target, "name", "name", type)
    \/ \E q \in Queries : GetWith(Source, q, <<"author">>)
    \/ ClearCache(Source)
    \/ \E name \in Names : InsertRow(Target, [name |-> name])
    \/ \E q \in Names : Update(Target, q, [name |-> "y"])
    \/ \E q \in RelValues : Remove(Target, q)

SpecCache == InitRel /\ [][NextCache]_vars

\* The counter calls are made by two connected instances built from the
\* first pair of Setups, which share one MemoryDriver, on a store whose
\* records have a counter or not.
CounterData ==
    { <<>>,
      << [name |-> "y", count |-> 0] >>,
      << [name |-> "x", count |-> 0] >>,
      << [name |-> "x"], [name |-> "x", count |-> 1] >> }
CounterFields == {"count"}

\* n connected instances built from the first pair of Setups, with the
\* given schema, which share one MemoryDriver that holds the given records
SharedMemory(n, schema, data) ==
    /\ allowed = {1}
    /\ options = [i \in 1..MaxInst |->
                     IF i <= n
                     THEN [driver |-> Setups[1].class, config |-> Setups[1].config,
                           schema |-> schema]
                     ELSE NoOptions]
    /\ relations = [i \in 1..MaxInst |-> <<>>]
    /\ loaders = [i \in 1..MaxInst |-> <<>>]
    /\ locals = [i \in 1..MaxInst |-> NoLocals]
    /\ nInst = n
    /\ connectionKey = [i \in 1..MaxInst |->
                           IF i <= n
                           THEN getPoolKey(Setups[1].class, Setups[1].config)
                           ELSE ""]
    /\ driver = [i \in 1..MaxInst |-> IF i <= n THEN RootHandle(1) ELSE NoHandle]
    /\ isConnected = [i \in 1..MaxInst |-> i <= n]
    /\ pc = [i \in 1..MaxInst |-> "idle"]
    /\ awaiting = [i \in 1..MaxInst |-> 0]
    /\ driversPool = (getPoolKey(Setups[1].class, Setups[1].config) :> RootHandle(1))
    /\ promises = <<ConnectedPromise(1)>>
    /\ connectionPromises = (promises[1].key :> 1)
    /\ drivers = <<[NewDriver(Setups[1].class, Setups[1].config)
                       EXCEPT !.idCounter = Len(data) + 1]>>
    /\ store = <<[EmptyStore EXCEPT !["default"] = Rows(data)]>>
    /\ ret = NoRet

InitCounter == \E data \in CounterData : SharedMemory(2, NoSchema, data)

NextCounter ==
    \/ \E i \in 1..2, q \in Queries, field \in CounterFields : Increment(i, q, field)
    \/ \E i \in 1..2, q \in Queries, field \in CounterFields : Decrement(i, q, field)
    \/ \E i \in 1..2 : IncrementResume(i)
    \/ \E i \in 1..2, q \in Queries : Remove(i, q)

SpecCounter == InitCounter /\ [][NextCounter]_vars

\* The writes under a schema are made by one connected instance on a
\* MemoryDriver, constructed with a schema that wants a name that is an
\* e-mail address and gives count the default 0; its callers hand it data
\* that passes the schema and data that does not.
UserSchema ==
    ("name" :> Rule("email", TRUE, FALSE, 0)) @@ ("count" :> Rule("number", FALSE, TRUE, 0))
SchemaNames == {"x", "a@b.c"}
SchemaInputs == {<<>>, [name |-> "x"], [name |-> "a@b.c"], [count |-> 1]}

InitSchema == SharedMemory(1, UserSchema, <<>>)

NextSchema ==
    \/ \E data \in SchemaInputs : InsertRow(1, data)
    \/ \E q \in {"*"} \cup SchemaNames, data \in SchemaInputs : Update(1, q, data)
    \/ \E id \in 1..MaxRows, data \in SchemaInputs : UpdateById(1, id, data)
    \/ \E q \in SchemaNames : Remove(1, q)

SpecSchema == InitSchema /\ [][NextSchema]_vars

\* The pushes are made by one connected instance without a schema on a
\* MemoryDriver whose records have an array of tags or not.
PushData ==
    { <<>>,
      << [name |-> "x"] >>,
      << [name |-> "x", tags |-> <<"a">>], [name |-> "y"] >>,
      << [name |-> "x", tags |-> <<"a">>], [name |-> "x"] >> }
Tags == {"a", "b"}

InitPush == \E data \in PushData : SharedMemory(1, NoSchema, data)

NextPush ==
    \/ \E q \in Queries, value \in Tags : Push(1, q, "tags", value)
    \/ \E name \in {"x", "y"} : InsertRow(1, [name |-> name])
    \/ \E q \in Names : Remove(1, q)

SpecPush == InitPush /\ [][NextPush]_vars

\* One connected instance on a MemoryDriver, whose caller issues insertMany,
\* insert and remove without awaiting the call before.
BatchNames == {"x", "y"}
OrderBatches ==
    UNION {[1..n -> {[name |-> name] : name \in BatchNames}] : n \in 0..MaxBatch}

InitOrder == SharedMemory(1, NoSchema, <<>>)

NextOrder ==
    \/ \E dataArray \in OrderBatches : InsertManyCall(1, dataArray, MaxBatch + 1, MaxBatch + 1)
    \/ InsertManyResume(1, MaxBatch + 1, MaxBatch + 1)
    \/ \E name \in BatchNames :
           InsertWith(1, [name |-> name], MaxBatch + 1, MaxBatch + 1)
    \/ \E q \in Queries : Remove(1, q)

SpecOrder == InitOrder /\ [][NextOrder]_vars

\* The continuation of an await on a settled promise is a queued microtask:
\* the event loop runs it.  The runs are those of instances built from one
\* pair, and from their handles.
FairSpec ==
    InitShared /\ [][Next]_vars /\ \A i \in 1..MaxInst : WF_vars(ConnectResume(i))

\* ------------------------------------------------------------ properties
PromiseIds == 1..Len(promises)
KeysUsed == {PoolKey(i) : i \in Insts}

\* driver.connect() calls made for a key, and those not yet settled
Invocations(k) == Cardinality({p \in PromiseIds : promises[p].key = k})
InFlight(k) ==
    Cardinality({p \in PromiseIds : promises[p].key = k /\ promises[p].state = "pending"})

\* the instances whose connect() call on key k has not completed
Waiting(k) == {i \in Insts : pc[i] = "awaitConnect" /\ PoolKey(i) = k}

\* C1: when two or more instances of one fingerprint have all called
\* connect() and none of the calls has completed, the backend's connect has
\* been invoked exactly once for that fingerprint.
C1_ConnectInvokedOnce ==
    \A k \in KeysUsed :
        (k.fp # "" /\ Cardinality(Waiting(k)) >= 2) => Invocations(k) = 1

C1_Witness ==
    \E k \in KeysUsed :
        /\ k.fp # ""
        /\ Cardinality(Waiting(k)) >= 2
        /\ InFlight(k) = 1

\* C2: at most one backend connect operation is in flight per coordination
\* key, the key being a fingerprint or a handle.
C2_OneInFlightPerKey == \A k \in KeysUsed : InFlight(k) <= 1

\* one backend handle with a connect in flight under its fingerprint and
\* another under its own identity
C2_Witness ==
    \E i, j \in Insts :
        /\ PoolKey(i).fp = "" /\ InFlight(PoolKey(i)) = 1
        /\ PoolKey(j).fp # "" /\ InFlight(PoolKey(j)) = 1
        /\ driver[i] = driver[j]
        /\ pc[i] = "awaitConnect" /\ pc[j] = "awaitConnect"

\* C3 (as claimed): a connect() call made on a key after the connect
\* operation of that key has failed invokes the backend's connect again.
C3_RetryAfterFailure ==
    [][\A i \in 1..MaxInst :
          ( /\ i <= nInst
            /\ pc[i] = "idle" /\ pc'[i] = "awaitConnect"
            /\ \E p \in PromiseIds :
                   promises[p].key = PoolKey(i) /\ promises[p].state = "rejected" )
          => Len(promises') = Len(promises) + 1]_vars

\* C4: when the connect operation of a key has failed, every connect() call
\* waiting on it fails with the error of that operation, and no waiting
\* instance is or becomes marked connected.
C4_WaitersFailTogether ==
    /\ [](\A i \in Insts :
            (pc[i] = "awaitConnect" /\ promises[awaiting[i]].state = "rejected")
            => ~isConnected[i])
    /\ [][\A i \in 1..MaxInst :
            ( /\ i <= nInst
              /\ pc[i] = "awaitConnect" /\ pc'[i] # "awaitConnect"
              /\ promises[awaiting[i]].state = "rejected" )
            => /\ ret' = Ret(i, "connect", "ConnectionError",
                             promises[awaiting[i]].err, 0, <<>>, <<>>)
               /\ ~isConnected'[i]]_vars

C4_Witness ==
    /\ ret.op = "connect" /\ ret.status = "ConnectionError"
    /\ ret.err = "ETIMEDOUT"
    /\ ~isConnected[ret.inst]
    /\ \E j \in Insts :
           /\ j # ret.inst
           /\ pc[j] = "awaitConnect"
           /\ promises[awaiting[j]].state = "rejected"
           /\ promises[awaiting[j]].key = PoolKey(ret.inst)

\* C5: when the connect operation of a key has succeeded, every connect()
\* call waiting on it eventually returns successfully, leaving its instance
\* marked connected.
C5_WaitersSucceed ==
    \A i \in 1..MaxInst :
        (i <= nInst /\ pc[i] = "awaitConnect"
             /\ promises[awaiting[i]].state = "fulfilled")
        ~> (ret = ConnectOk(i) /\ isConnected[i])

C5_Witness ==
    /\ ret.op = "connect" /\ ret.status = "ok"
    /\ isConnected[ret.inst]
    /\ \E j \in Insts :
           /\ j # ret.inst
           /\ pc[j] = "awaitConnect"
           /\ promises[awaiting[j]].state = "fulfilled"
           /\ promises[awaiting[j]].key = PoolKey(ret.inst)

\* C6 (as claimed): the marker map holds no entry for a key that has no
\* connect in flight.
C6_MarkerRemoved ==
    \A k \in DOMAIN connectionPromises : InFlight(k) >= 1

\* C7: for the instances built from (class, configuration) pairs of one
\* fingerprint, the backend class has been instantiated exactly once, and
\* each instance holds the registered handle or a sub-resource scope of it.
Instantiations(fp) == Cardinality({d \in 1..Len(drivers) : drivers[d].key = fp})

C7_OneHandlePerFingerprint ==
    \A i \in Insts :
        connectionKey[i] # "" =>
            /\ Instantiations(connectionKey[i]) = 1
            /\ PoolHas(connectionKey[i])
            /\ \/ driver[i] = driversPool[connectionKey[i]]
               \/ /\ HasTable(ClassOf(driver[i]))
                  /\ \E t \in Subs : driver[i] = table(driversPool[connectionKey[i]], t)

C7_Witness ==
    \E i, j \in Insts :
        /\ i # j
        /\ connectionKey[i] # "" /\ connectionKey[i] = connectionKey[j]
        /\ driver[i] = driversPool[connectionKey[i]]
        /\ driver[j] # driver[i]
        /\ driver[j].root = driver[i].root

\* C8: with the instances built from identical (class, configuration) pairs,
\* right after a connected instance has inserted a record into an empty
\* store, count() of that record on every connected instance returns 1.
C8_SharedData ==
    ( /\ Cardinality(allowed) = 1
      /\ ret.op = "insert" /\ ret.status = "ok"
      /\ connectionKey[ret.inst] # ""
      /\ DataOf(driver[ret.inst]) = ret.recs )
    => \A b \in Insts :
           (connectionKey[b] # "" /\ isConnected[b])
           => count(b, ret.recs[1].name)
                  = Ret(b, "count", "ok", "", 1, <<>>, <<"count">>)

C8_Witness ==
    /\ ret.op = "insert" /\ ret.status = "ok"
    /\ connectionKey[ret.inst] # ""
    /\ DataOf(driver[ret.inst]) = ret.recs
    /\ \E b \in Insts :
           /\ b # ret.inst
           /\ connectionKey[b] # "" /\ isConnected[b]
           /\ driver[b] # driver[ret.inst]
           /\ count(b, "x").n = 1

\* C9: a CRUD call on an instance that is not marked connected fails with
\* the not-connected error and invokes no method of the backend handle,
\* connect included.
C9_NotConnectedRefused ==
    /\ \A i \in Insts : \A q \in Queries :
           ~isConnected[i] =>
               /\ get(i, q) = Ret(i, "get", "NotConnected", "", 0, <<>>, <<>>)
               /\ count(i, q) = Ret(i, "count", "NotConnected", "", 0, <<>>, <<>>)
    /\ (ret.op \in {"insert", "remove"} /\ ~isConnected[ret.inst])
           => ret = Ret(ret.inst, ret.op, "NotConnected", "", 0, <<>>, <<>>)

C9_Witness ==
    /\ ret.op = "insert" /\ ret.status = "NotConnected"
    /\ pc[ret.inst] = "awaitConnect"
    /\ promises[awaiting[ret.inst]].state = "pending"

IsConnectCall(i) ==
    /\ i <= nInst
    /\ pc[i] = "idle"
    /\ pc'[i] = "awaitConnect" \/ (ret'.op = "connect" /\ ret'.inst = i)

\* C11: once the connect operation of a key has succeeded, a later connect()
\* call of an instance of that key invokes no backend connect, and it
\* returns successfully: at once, or from its await on the fulfilled promise.
C11_LaterConnectReuses ==
    /\ [][\A i \in 1..MaxInst :
            ( /\ IsConnectCall(i)
              /\ \E p \in PromiseIds :
                     promises[p].key = PoolKey(i) /\ promises[p].state = "fulfilled" )
            => /\ promises' = promises
               /\ \/ ret' = ConnectOk(i) /\ isConnected'[i]
                  \/ /\ pc'[i] = "awaitConnect"
                     /\ promises[awaiting'[i]].state = "fulfilled"]_vars
    /\ \A i \in 1..MaxInst :
           (i <= nInst /\ pc[i] = "awaitConnect"
                /\ promises[awaiting[i]].state = "fulfilled"
                /\ promises[awaiting[i]].key = PoolKey(i))
           ~> (pc[i] = "idle" /\ isConnected[i])

\* the one instance has connected, disconnected and connected again: the
\* backend was connected once
C11_Witness ==
    /\ nInst = 1
    /\ ret = ConnectOk(1) /\ isConnected[1]
    /\ Len(promises) = 1 /\ promises[1].state = "fulfilled"
    /\ HasIsConnected(ClassOf(driver[1])) /\ ~DriverIsConnected(driver[1])

\* C12 (as claimed): a connect() call whose backend handle reports itself
\* connected at entry invokes no backend connect and returns successfully
\* (at once, or at the latest from an await on an already fulfilled promise),
\* whatever pending or failed marker its key has.
C12_ReportedConnectedReturns ==
    [][\A i \in 1..MaxInst :
          (IsConnectCall(i) /\ ReportsConnected(driver[i]))
          => /\ promises' = promises
             /\ \/ ret' = ConnectOk(i) /\ isConnected'[i]
                \/ /\ pc'[i] = "awaitConnect"
                   /\ promises[awaiting'[i]].state = "fulfilled"]_vars

\* C13: connect() on an instance already marked connected returns at once
\* and changes nothing: no backend operation, the registry, the marker map
\* and the instance's state as they were.
C13_ConnectedConnectNoOp ==
    [][\A i \in 1..MaxInst :
          (IsConnectCall(i) /\ isConnected[i])
          => /\ ret' = ConnectOk(i)
             /\ UNCHANGED <<allowed, relations, loaders, locals, options, nInst, connectionKey, driver,
                            isConnected, pc, awaiting, driversPool,
                            connectionPromises, promises, drivers, store>>]_vars

\* the instance was marked connected through its handle's isConnected(),
\* its key has no marker, and the backend has been disconnected since: the
\* connect() that just returned took the first return of the method
C13_Witness ==
    /\ ret.op = "connect" /\ ret.status = "ok"
    /\ isConnected[ret.inst]
    /\ PromiseGet(PoolKey(ret.inst)) = 0
    /\ HasIsConnected(ClassOf(driver[ret.inst]))
    /\ ~DriverIsConnected(driver[ret.inst])

\* the step is a disconnect() call of instance i; the step is the
\* continuation of one from its await on
IsDisconnectCall(i) ==
    /\ i <= nInst
    /\ pc[i] = "idle"
    /\ pc'[i] = "awaitDisconnect" \/ (ret'.op = "disconnect" /\ ret'.inst = i)
IsDisconnectResume(i) == i <= nInst /\ pc[i] = "awaitDisconnect" /\ pc'[i] = "idle"

\* C14: disconnect() on an instance marked connected calls the handle's
\* disconnect and then clears the flag of that instance only, the registry
\* and the flags of the other instances staying as they are; disconnect() on
\* an instance not marked connected calls nothing and changes nothing.
C14_DisconnectClearsOwnFlag ==
    [][\A i \in 1..MaxInst :
          /\ (IsDisconnectCall(i) /\ isConnected[i])
             => /\ pc'[i] = "awaitDisconnect"
                /\ drivers' = DriverDisconnectDrivers(driver[i])
                /\ store' = DriverDisconnectStore(driver[i])
                /\ UNCHANGED <<isConnected, driversPool, connectionPromises>>
          /\ IsDisconnectResume(i)
             => /\ ~isConnected'[i]
                /\ \A j \in 1..MaxInst : j # i => isConnected'[j] = isConnected[j]
                /\ ret' = Ret(i, "disconnect", "ok", "", 0, <<>>, <<"disconnect">>)
                /\ UNCHANGED <<driversPool, connectionPromises, drivers, store>>
          /\ (IsDisconnectCall(i) /\ ~isConnected[i])
             => /\ ret' = Ret(i, "disconnect", "ok", "", 0, <<>>, <<>>)
                /\ UNCHANGED <<allowed, relations, loaders, locals, options, nInst, connectionKey, driver,
                               isConnected, pc, awaiting, driversPool,
                               connectionPromises, promises, drivers, store>>]_vars

\* an instance has just disconnected; another instance of its fingerprint is
\* still marked connected and the registry still maps the fingerprint to
\* the handle
C14_Witness ==
    /\ ret.op = "disconnect" /\ ret.calls = <<"disconnect">>
    /\ ~isConnected[ret.inst]
    /\ connectionKey[ret.inst] # ""
    /\ PoolHas(connectionKey[ret.inst])
    /\ driversPool[connectionKey[ret.inst]].root = driver[ret.inst].root
    /\ \E j \in Insts :
           /\ j # ret.inst
           /\ connectionKey[j] = connectionKey[ret.inst]
           /\ isConnected[j]

\* C15: a fingerprint the registry maps to a handle is mapped to that same
\* handle in every later state, whatever step is taken.
C15_RegistryPermanent ==
    [][\A k \in DOMAIN driversPool :
          k \in DOMAIN driversPool' /\ driversPool'[k] = driversPool[k]]_vars

\* two fingerprints are registered, each with its own backend; a connect
\* has failed, another has succeeded and its instance has disconnected
C15_Witness ==
    /\ Cardinality(DOMAIN driversPool) = 2
    /\ \A i \in Insts : PoolHas(connectionKey[i])
                           /\ driversPool[connectionKey[i]] = RootHandle(i)
    /\ nInst = 2
    /\ \E p \in PromiseIds : promises[p].state = "rejected"
    /\ \E p \in PromiseIds : promises[p].state = "fulfilled"
    /\ ret.op = "disconnect" /\ ret.calls = <<"disconnect">>

\* the instances built from a class and a configuration, and what they
\* were built from
Built == {i \in Insts : options[i].driver \in DriverClasses}
Cfg(i) == options[i].config
Override(i) == Truthy(Cfg(i), "connectionKey")
Without(config, keys) == SelectSeq(config, LAMBDA e : e.key \notin keys)
EntriesOf(config) == {config[n] : n \in 1..Len(config)}

\* C16: for a class that switches sub-resources, two configurations that
\* differ only in collectionName, tableName, collection and table have the
\* same fingerprint.
C16_TableKeysIgnored ==
    \A i, j \in Built :
        ( /\ options[i].driver = options[j].driver
          /\ HasTable(options[i].driver)
          /\ Without(Cfg(i), TableKeys) = Without(Cfg(j), TableKeys) )
        => connectionKey[i] = connectionKey[j]

C16_Witness ==
    \E i, j \in Built :
        /\ options[i].driver = options[j].driver
        /\ HasTable(options[i].driver)
        /\ ~Override(i)
        /\ Without(Cfg(i), TableKeys) = Without(Cfg(j), TableKeys)
        /\ TableName(Cfg(i)) = "users" /\ TableName(Cfg(j)) = "posts"
        /\ Cfg(i)[1].key # Cfg(j)[1].key
        /\ connectionKey[i] = connectionKey[j]
        /\ driver[i].root = driver[j].root

\* C17: for a class that does not switch sub-resources, two configurations
\* without connectionKey that are equal but for the sub-resource they name
\* have different fingerprints.
C17_SubResourceInKey ==
    \A i, j \in Built :
        ( /\ options[i].driver = options[j].driver
          /\ ~HasTable(options[i].driver)
          /\ ~Override(i) /\ ~Override(j)
          /\ Without(Cfg(i), TableKeys) = Without(Cfg(j), TableKeys)
          /\ TableName(Cfg(i)) # TableName(Cfg(j)) )
        => connectionKey[i] # connectionKey[j]

C17_Witness ==
    \E i, j \in Built :
        /\ options[i].driver = options[j].driver
        /\ ~HasTable(options[i].driver)
        /\ Cfg(i) = <<Entry("uri", "t"), Entry("collection", "users")>>
        /\ Cfg(j) = <<Entry("uri", "t"), Entry("collection", "posts")>>
        /\ connectionKey[i] # connectionKey[j]
        /\ driver[i].root # driver[j].root

\* C18 (as claimed): two configurations holding the same entries in a
\* different key order have the same fingerprint.
C18_KeyOrderIrrelevant ==
    \A i, j \in Built :
        ( /\ options[i].driver = options[j].driver
          /\ EntriesOf(Cfg(i)) = EntriesOf(Cfg(j)) )
        => connectionKey[i] = connectionKey[j]

\* the entries of a configuration that are relevant to the identity of the
\* connection of its class
RelevantEntries(i) ==
    {e \in EntriesOf(Cfg(i)) :
        e.key \notin (IF HasTable(options[i].driver) THEN IGNORE_KEYS
                      ELSE IGNORE_KEYS \ TableKeys)}

\* C19 (as claimed): two (class, configuration) pairs without connectionKey
\* that differ in the class, or in the presence or the value of an
\* identity-relevant key, have different fingerprints.
C19_NoCollision ==
    \A i, j \in Built :
        ( /\ ~Override(i) /\ ~Override(j)
          /\ \/ options[i].driver # options[j].driver
             \/ RelevantEntries(i) # RelevantEntries(j) )
        => connectionKey[i] # connectionKey[j]

\* C20: the fingerprint of a configuration that carries a connectionKey is
\* that value, whatever the class and the other entries.
C20_OverrideWins ==
    \A i \in Built :
        Override(i) => connectionKey[i] = ValueOf(Cfg(i), "connectionKey")

\* two instances of different classes and different entries, both built with
\* connectionKey k: both have fingerprint k and share the registered handle
C20_Witness ==
    \E i, j \in Built :
        /\ options[i].driver # options[j].driver
        /\ Override(i) /\ Override(j)
        /\ Without(Cfg(i), {"connectionKey"}) # Without(Cfg(j), {"connectionKey"})
        /\ Len(Cfg(i)) = 2 /\ Cfg(i)[2].key = "connectionKey"
        /\ connectionKey[i] = "k" /\ connectionKey[j] = "k"
        /\ driver[i].root = driver[j].root

\* ---- relationship resolution, on the source instance of SpecRel
Declared(name) == name \in DOMAIN relations[Source]
Author == relations[Source]["author"]
AuthorCache ==
    IF "author" \in DOMAIN loaders[Source] THEN loaders[Source]["author"].cache
    ELSE <<>>
TargetData == DataOf(driver[Author.target])
TargetServes == isConnected[Author.target] /\ Serves(driver[Author.target])
Fetches(calls) == Cardinality({n \in 1..Len(calls) : calls[n] = "target.get"})

\* the records a getWith / getOneWith call of the source fetches for query q
Fetched(op, q) ==
    LET found == Filter(DataOf(driver[Source]), q, TRUE)
    IN  IF op = "getWith" \/ found = <<>> THEN found ELSE <<Head(found)>>
KeySet(op, q) ==
    LET keys == KeysOf(Fetched(op, q), Author.localKey)
    IN  {keys[n] : n \in 1..Len(keys)}

\* the step is the call op(q, ...rels) of the source instance
IsCall(op, q, rels) ==
    /\ ret'.op = op /\ ret'.inst = Source
    /\ \/ op = "getWith" /\ GetWith(Source, q, rels)
       \/ op = "getOneWith" /\ GetOneWith(Source, q, rels)
RelOps == {"getWith", "getOneWith"}

\* C21: a relationship-populating call over one or more records with at
\* least one key, none of the keys cached, fetches from the target exactly
\* once, however many records and distinct keys there are.
C21_OneFetchPerCall ==
    [][\A op \in RelOps, q \in Queries :
          ( /\ Declared("author")
            /\ KeySet(op, q) # {}
            /\ KeySet(op, q) \cap DOMAIN AuthorCache = {}
            /\ IsCall(op, q, <<"author">>) )
          => Fetches(ret'.calls) = 1]_vars

\* a call has just annotated three records of two distinct keys, one record
\* without a key among them, with one fetch
C21_Witness ==
    /\ ret.op = "getWith" /\ ret.status = "ok"
    /\ Len(ret.recs) = 3
    /\ ret.calls = <<"get", "target.get">>
    /\ Declared("author")
    /\ DOMAIN AuthorCache = {FieldOf([name |-> v], "name") : v \in RelValues}
    /\ TargetData # <<>>

\* C22: a resolution of a relationship all of whose keys an earlier call of
\* the instance has resolved fetches nothing from the target; one that also
\* has new keys fetches exactly once.
C22_CachedKeysNotFetched ==
    [][\A op \in RelOps, q \in Queries :
          ( /\ Declared("author")
            /\ KeySet(op, q) # {}
            /\ KeySet(op, q) \cap DOMAIN AuthorCache # {}
            /\ IsCall(op, q, <<"author">>) )
          => Fetches(ret'.calls) =
                 IF KeySet(op, q) \subseteq DOMAIN AuthorCache THEN 0 ELSE 1]_vars

\* a call has just returned its records annotated with a target record
\* without fetching from the target
C22_Witness ==
    /\ ret.op = "getWith" /\ ret.status = "ok"
    /\ ret.calls = <<"get">>
    /\ Len(ret.recs) = 2
    /\ \A n \in 1..2 : /\ "author" \in DOMAIN ret.recs[n]
                       /\ ret.recs[n]["author"].kind = "record"

\* what a record of key k carries after a resolution against the target's
\* records as they are now
Joined(rec, k, type) ==
    LET hits == SelectSeq(TargetData, LAMBDA t : FieldOf(t, Author.foreignKey) = k)
    IN  /\ "author" \in DOMAIN rec
        /\ IF type = "many" THEN rec["author"] = ManyResult(hits)
           ELSE IF hits = <<>> THEN rec["author"] = NullResult
           ELSE /\ rec["author"].kind = "record"
                /\ \E n \in 1..Len(hits) : rec["author"].recs = <<hits[n]>>

\* every record with a key that the call returns is joined with the
\* target's current records
AllJoined(op, q) ==
    /\ ret'.status = "ok"
    /\ Len(ret'.recs) = Len(Fetched(op, q))
    /\ \A n \in 1..Len(ret'.recs) :
           LET k == FieldOf(Fetched(op, q)[n], Author.localKey)
           IN  k.t # "undefined" => Joined(ret'.recs[n], k, Author.type)

\* C23: the resolution that follows clearCache() fetches from the target
\* afresh, and its results are those of the target's current records, also
\* for the keys resolved before the clear.
C23_ClearCacheRefetches ==
    [][\A op \in RelOps, q \in Queries :
          ( /\ ret.op = "clearCache" /\ ret.inst = Source
            /\ Declared("author")
            /\ KeySet(op, q) # {}
            /\ IsCall(op, q, <<"author">>) )
          => /\ Fetches(ret'.calls) = 1
             /\ TargetServes => AllJoined(op, q)]_vars

\* a stored record still carries the null of a resolution made when the
\* target was empty, its key is no longer in the cache, and the call that
\* just returned fetched the target's record for the key it resolved
C23_Witness ==
    /\ ret.op = "getWith" /\ ret.status = "ok"
    /\ ret.calls = <<"get", "target.get">>
    /\ Len(ret.recs) = 1
    /\ "author" \in DOMAIN ret.recs[1] /\ ret.recs[1]["author"].kind = "record"
    /\ DOMAIN AuthorCache = {FieldOf(ret.recs[1], "name")}
    /\ \E n \in 1..Len(DataOf(driver[Source])) :
           LET rec == DataOf(driver[Source])[n]
           IN  /\ "author" \in DOMAIN rec /\ "name" \in DOMAIN rec
               /\ rec.name # ret.recs[1].name
               /\ rec["author"] = NullResult

\* C24: after a resolution made with an empty cache and a target that
\* answers, every returned record with a key k carries, at its own position,
\* for cardinality one a target record whose foreign key is k, or null when
\* there is none, and for cardinality many exactly the target records whose
\* foreign key is k, in the target's order.
C24_ResultsJoined ==
    [][\A op \in RelOps, q \in Queries :
          ( /\ Declared("author")
            /\ "author" \notin DOMAIN loaders[Source]
            /\ KeySet(op, q) # {}
            /\ TargetServes
            /\ IsCall(op, q, <<"author">>) )
          => AllJoined(op, q)]_vars

\* two records sharing one key were returned, each with the two target
\* records of that key, in the target's order
C24_Witness ==
    /\ ret.op = "getWith" /\ ret.status = "ok"
    /\ Len(ret.recs) = 2
    /\ \A n \in 1..2 : "name" \in DOMAIN ret.recs[n]
    /\ ret.recs[1].name = ret.recs[2].name
    /\ Declared("author") /\ Author.type = "many"
    /\ Len(TargetData) = 2
    /\ \A n \in 1..2 : /\ "author" \in DOMAIN ret.recs[n]
                       /\ ret.recs[n]["author"] = ManyResult(TargetData)

\* the call returned by this step is a successful resolution of "author"
\* for the records matching q
Resolved(op, q) ==
    /\ Declared("author")
    /\ IsCall(op, q, <<"author">>)
    /\ ret'.status = "ok"

\* C25: after a resolution every returned record whose local key is null or
\* absent carries the empty result of the relationship's cardinality, also
\* when no record of the call has a key.
C25_NullKeysGetEmptyResult ==
    [][\A op \in RelOps, q \in Queries :
          Resolved(op, q)
          => \A n \in 1..Len(ret'.recs) :
                 FieldOf(ret'.recs[n], Author.localKey).t = "undefined"
                 => /\ "author" \in DOMAIN ret'.recs[n]
                    /\ ret'.recs[n]["author"] = EmptyResult(Author.type)]_vars

\* C26: a getWith or getOneWith that names a relationship the instance has
\* not declared fails, whatever the query matches.
C26_UndeclaredAlwaysFails ==
    [][\A op \in RelOps, q \in Queries :
          ( /\ ~Declared("tags")
            /\ ensureConnected(Source) /\ Serves(driver[Source])
            /\ IsCall(op, q, <<"tags">>) )
          => ret'.status = "UnknownRelation"]_vars

\* C27: a call that fails for an undeclared relationship has populated no
\* record, neither of those it fetched nor of those the source store holds.
C27_FailureLeavesRecordsAlone ==
    [][(ret'.op \in RelOps /\ ret'.status = "UnknownRelation")
          => store' = store]_vars

\* C28: once a relationship has been declared again with another
\* cardinality, the next resolution fetches from the target and its results
\* have the newly declared cardinality.
C28_RedeclareClearsCache ==
    [][\A op \in RelOps, q \in Queries :
          ( /\ ret.op = "relation"
            /\ Declared("author")
            /\ "author" \in DOMAIN loaders[Source]
            /\ loaders[Source]["author"].type # Author.type
            /\ KeySet(op, q) # {}
            /\ TargetServes
            /\ IsCall(op, q, <<"author">>) )
          => /\ Fetches(ret'.calls) = 1
             /\ AllJoined(op, q)]_vars

\* C29: a resolution whose fetch from the target fails does not return
\* successfully.
C29_TargetFailureFailsCall ==
    [][\A op \in RelOps, q \in Queries :
          ( /\ Declared("author")
            /\ KeySet(op, q) # {}
            /\ ~TargetServes
            /\ IsCall(op, q, <<"author">>) )
          => ret'.status # "ok"]_vars

CounterOps == {"increment", "decrement"}

\* no record the instance's backend holds matches the query
NoMatch(i, q) ==
    \A n \in 1..Len(DataOf(driver[i])) : ~Matches(DataOf(driver[i])[n], q)

\* C30: an increment or a decrement whose query matches no record when the
\* call reads the store ends with the record-not-found error, returns no
\* value and issues no update: the store is as it was.
C30_NoMatchFailsWithoutUpdate ==
    [][\A i \in 1..2 :
          /\ (pc[i] = "idle" /\ pc'[i] = "awaitGetOne")
             => /\ store' = store
                /\ locals'[i].record = <<>> <=> NoMatch(i, locals'[i].query)
          /\ (pc[i] = "awaitGetOne" /\ pc'[i] = "idle" /\ locals[i].record = <<>>)
             => /\ ret'.op \in CounterOps /\ ret'.inst = i
                /\ ret'.status = "RecordNotFound"
                /\ ret'.n = 0
                /\ ret'.calls = <<"getOne">>
                /\ store' = store]_vars

\* a decrement on a store that holds a record, none of which the query
\* matches, has just failed
C30_Witness ==
    /\ ret.op = "decrement" /\ ret.status = "RecordNotFound"
    /\ ret.calls = <<"getOne">>
    /\ DataOf(driver[1]) # <<>>

\* C32: a construction from an already-built handle leaves the registry and
\* the backends built so far as they were, gives the instance exactly the
\* handle it was handed and no fingerprint, and makes the handle itself the
\* key its connect() coordinates on.
C32_HandleConstructionSkipsPooling ==
    [][\A i \in 1..MaxInst :
          (nInst = i - 1 /\ nInst' = i /\ options'[i].driver = "handle")
          => /\ driversPool' = driversPool
             /\ drivers' = drivers
             /\ \E j \in Insts : driver'[i] = driver[j]
             /\ connectionKey'[i] = ""
             /\ PoolKey(i)' = HandleKey(driver[i])']_vars

\* the second instance was built from the handle of the first and has
\* connected under the handle's identity; the registry has the one entry
\* the first construction made
C32_Witness ==
    /\ nInst = 2
    /\ options[2].driver = "handle"
    /\ Cardinality(DOMAIN driversPool) = 1
    /\ HandleKey(driver[2]) \in DOMAIN connectionPromises
    /\ isConnected[2]

\* C34: a construction from a class and a configuration whose fingerprint
\* the registry holds takes the registered root handle, scoped to the
\* sub-resource its own configuration names when the root handle can select
\* sub-resources, and builds nothing; one whose fingerprint the registry
\* does not hold builds a fresh handle and registers it under the
\* fingerprint.
C34_ConstructionResolvesHandle ==
    [][\A i \in 1..MaxInst :
          (nInst = i - 1 /\ nInst' = i /\ options'[i].driver \in DriverClasses)
          => LET fp == getPoolKey(options'[i].driver, options'[i].config)
             IN  IF fp \in DOMAIN driversPool
                 THEN /\ driver'[i] =
                            IF HasTable(ClassOf(driversPool[fp]))
                            THEN [root |-> driversPool[fp].root,
                                  table |-> TableName(options'[i].config)]
                            ELSE driversPool[fp]
                      /\ driversPool' = driversPool
                      /\ drivers' = drivers
                 ELSE /\ Len(drivers') = Len(drivers) + 1
                      /\ drivers'[Len(drivers')].class = options'[i].driver
                      /\ driver'[i] = RootHandle(Len(drivers'))
                      /\ DOMAIN driversPool' = DOMAIN driversPool \cup {fp}
                      /\ driversPool'[fp] = driver'[i]
                      /\ \A k \in DOMAIN driversPool : driversPool'[k] = driversPool[k]]_vars

\* the second instance was constructed for the fingerprint of the first and
\* holds the first one's backend scoped to the sub-resource "posts"
C34_Witness ==
    /\ nInst = 2
    /\ options[2].driver = TableDriver
    /\ connectionKey[2] = connectionKey[1]
    /\ driver[2] = [root |-> driver[1].root, table |-> "posts"]
    /\ Len(drivers) = 1
    /\ Cardinality(DOMAIN driversPool) = 1

\* C35: while no disconnect() is under way on its backend, an instance
\* marked connected holds a handle whose backend is connected.
C35_ConnectedMeansLive ==
    \A i \in Insts :
        ( /\ isConnected[i]
          /\ HasIsConnected(ClassOf(driver[i]))
          /\ \A j \in Insts :
                 driver[j].root = driver[i].root => pc[j] # "awaitDisconnect" )
        => DriverIsConnected(driver[i])

\* C40: the instances built with one explicit connectionKey all hold the one
\* backend the registry has under that key, which is an object of the class
\* of the first of them; no later one has instantiated its own class.
C40_SameKeySameHandle ==
    \A i, j \in Built :
        ( /\ i < j
          /\ Override(i) /\ Override(j)
          /\ ValueOf(Cfg(i), "connectionKey") = ValueOf(Cfg(j), "connectionKey")
          /\ \A f \in Built : Override(f) => i <= f )
        => /\ driver[i].root = driver[j].root
           /\ ValueOf(Cfg(i), "connectionKey") \in DOMAIN driversPool
           /\ driversPool[ValueOf(Cfg(i), "connectionKey")].root = driver[i].root
           /\ drivers[driver[j].root].class = options[i].driver
           /\ Cardinality({d \in 1..Len(drivers) :
                              drivers[d].key = ValueOf(Cfg(i), "connectionKey")}) = 1

\* a MemoryDriver instance and then a TableDriver instance with another
\* configuration were built with the same connectionKey: one backend exists,
\* a MemoryDriver, and both hold it
C40_Witness ==
    /\ nInst = 2
    /\ options[1].driver = MemoryDriver /\ options[2].driver = TableDriver
    /\ Override(1) /\ Override(2)
    /\ Without(Cfg(1), {"connectionKey"}) # Without(Cfg(2), {"connectionKey"})
    /\ Len(drivers) = 1
    /\ drivers[1].class = MemoryDriver
    /\ driver[1] = driver[2]

\* C37: a getWith or getOneWith, made while the target answers, calls no
\* write operation of a backend and leaves the records the backends hold as
\* they were.
C37_PopulationReadOnly ==
    [][(ret'.op \in RelOps /\ (Declared("author") => TargetServes))
          => /\ \A n \in 1..Len(ret'.calls) :
                    ret'.calls[n] \in {"get", "getOne", "target.get"}
             /\ store' = store]_vars

\* C38: as long as the cache is not cleared, what the loader holds for a key
\* stays what its first resolution computed, whatever is inserted into,
\* changed in or removed from the target, and a resolution attaches exactly
\* that to the records of the key.
C38_CachedResultKept ==
    [][ret'.op # "clearCache"
          => /\ \A k \in DOMAIN AuthorCache :
                    /\ "author" \in DOMAIN loaders'[Source]
                    /\ k \in DOMAIN loaders'[Source]["author"].cache
                    /\ loaders'[Source]["author"].cache[k] = AuthorCache[k]
             /\ (ret'.op = "getWith" /\ ret'.status = "ok" /\ Declared("author"))
                => \A n \in 1..Len(ret'.recs) :
                       LET k == FieldOf(ret'.recs[n], Author.localKey)
                       IN  k \in DOMAIN AuthorCache
                           => /\ "author" \in DOMAIN ret'.recs[n]
                              /\ ret'.recs[n]["author"] = AuthorCache[k]]_vars

\* a resolution without a fetch has attached a target record to a source
\* record although the target, which still holds records, no longer has one
\* of that key
C38_Witness ==
    /\ ret.op = "getWith" /\ ret.status = "ok"
    /\ ret.calls = <<"get">>
    /\ Len(ret.recs) > 0
    /\ "author" \in DOMAIN ret.recs[1]
    /\ ret.recs[1]["author"].kind = "record"
    /\ Declared("author")
    /\ TargetData # <<>>
    /\ \A n \in 1..Len(TargetData) : TargetData[n].name # ret.recs[1].name

\* C39: a counter call that completes leaves the stored value of the record
\* it read higher by its amount than it was just before the call completed,
\* so that k completed increments by 1 add up to k.
C39_IncrementRaisesByAmount ==
    [][\A i \in 1..2 :
          (pc[i] = "awaitGetOne" /\ pc'[i] = "idle" /\ ret'.status = "ok")
          => \A n \in 1..Len(DataOf(driver[i])) :
                 DataOf(driver[i])[n]._id = locals[i].record[1]._id
                 => CurrentValue(<<(DataOf(driver[i]))'[n]>>, locals[i].field)
                        = CurrentValue(<<DataOf(driver[i])[n]>>, locals[i].field)
                              + locals[i].amount]_vars

\* C33: under a schema every record the backend holds has come through
\* validation: each of its fields that the schema names has the type the
\* schema gives it.
C33_StoredRecordsValidated ==
    \A n \in 1..Len(DataOf(driver[1])) :
        SchemaValidate(options[1].schema, DataOf(driver[1])[n], TRUE).ok

\* C36: a push that returns has appended the value to the array of every
\* record its query matched, has left the _id and the other fields of every
\* record as they were, has left the records it did not match alone, and
\* returns the number of records it matched.
C36_PushAppendsOnly ==
    [][\A q \in Queries, value \in Tags :
          (Push(1, q, "tags", value) /\ ret'.status = "ok")
          => LET old == DataOf(driver[1])
                 new == (DataOf(driver[1]))'
             IN  /\ Len(new) = Len(old)
                 /\ ret'.n = Len(Filter(old, q, TRUE))
                 /\ \A n \in 1..Len(old) :
                        IF Matches(old[n], q)
                        THEN /\ new[n]._id = old[n]._id
                             /\ new[n].tags =
                                    Append(IF "tags" \in DOMAIN old[n]
                                           THEN old[n].tags ELSE <<>>, value)
                             /\ \A f \in DOMAIN old[n] \ {"tags"} :
                                    new[n][f] = old[n][f]
                        ELSE new[n] = old[n]]_vars

\* C31: while an insertMany of an instance still has records to hand to the
\* backend, no operation the instance's caller issued after it reaches the
\* backend.
C31_IssueOrderKept ==
    [][\A i \in Insts :
          (pc[i] = "awaitSet" /\ locals[i].dataArray # <<>>)
          => ~(ret'.inst = i /\ ret'.op \in {"insert", "remove"}
               /\ ret'.calls # <<>>)]_vars
====
